---------------------------- MODULE Spec2Model ----------------------------
(***************************************************************************)
(* Canvapress CVP1 encoder/decoder (src/src/lib.rs) as a state machine.    *)
(*                                                                         *)
(* One behaviour is one encode invocation (encode_erase), optionally one   *)
(* modification of the container bytes it produced, and one decode         *)
(* invocation (decode_fill) on the resulting bytes.  The loops of the two  *)
(* functions advance one step per action, so the states "between steps"    *)
(* are states of the model.  Two further specifications exercise parts of  *)
(* the library on their own: SpecA the marker set (ABitset) under any       *)
(* sequence of set_step and clear_step calls, SpecIndex the step-index      *)
(* builder on marker sets as a container can hold them.                     *)
(*                                                                         *)
(* Scale.  The program works on 8-bit bytes, u16/u32/u64 integers, a       *)
(* 512x512 canvas, 64-step marker pages and LIMIT = 2^59.  The model keeps *)
(* every one of these as a fixed-width quantity with the same wrap-around, *)
(* truncation and bounds behaviour, at a reduced width:                    *)
(*                                                                         *)
(*     program                      model                                  *)
(*     byte          8 bits         ByteBits = 1 bit                        *)
(*     u8/u16/u32    1/2/4 bytes    1/2/4 bytes (of ByteBits bits)          *)
(*     u64 (plane)   8 bytes        8 bytes                                 *)
(*     u64 (mask)    64 bits,       PageSize bits, one per step of a page   *)
(*                   one per step   (written as MaskBytes bytes)            *)
(*     W, H          2^9, 2^9       2^WBits, 2^HBits                        *)
(*     page          64 steps       PageSize = 2^PageBits steps             *)
(*     LIMIT         2^64 / 32      U64Mod / 4                              *)
(*                                                                         *)
(* The relations the program's behaviour depends on are kept:              *)
(*   payload byte < W;  PIXELS = W*H < 2^32 (u32 cell indices can be out   *)
(*   of range);  the steps of one cell lie in distinct pages               *)
(*   (HBits >= PageBits);  a cell can hold 2^16 pages within u32 steps     *)
(*   (U32Bits - HBits >= U16Bits);  the sum of all lane weights of u32     *)
(*   steps stays below LIMIT.                                              *)
(***************************************************************************)
EXTENDS Integers, Sequences, FiniteSets, TLC

\* ---------------------------------------------------------------- scale
ByteBits == 1
WBits == 2
HBits == 1
PageBits == 1

ByteMod == 2^ByteBits
U8Mod == ByteMod
U16Mod == ByteMod^2
U32Mod == ByteMod^4
U64Mod == ByteMod^8
U32Bytes == 4
U16Bytes == 2
U64Bytes == 8

\* ------------------------------------------------------------ constants
W == 2^WBits
H == 2^HBits
PIXELS == W * H
PageSize == 2^PageBits
MaskMod == 2^PageSize
MaskBytes == PageSize \div ByteBits
\* b"CVP1", each byte reduced modulo ByteMod
MAGIC == <<67 % ByteMod, 86 % ByteMod, 80 % ByteMod, 49 % ByteMod>>
RG_LIMIT_EXACT == U64Mod \div 4

\* ------------------------------------------------------ integer helpers
Bit(m, b) == (m \div (2^b)) % 2

RECURSIVE from_le_bytes(_)
from_le_bytes(s) ==
    IF s = <<>> THEN 0 ELSE Head(s) + ByteMod * from_le_bytes(Tail(s))

to_le_bytes(v, nb) == [i \in 1..nb |-> (v \div (ByteMod^(i - 1))) % ByteMod]

\* lane_k: 0 = R for odd steps, 1 = G for even steps.  step + 1 is a u32
\* addition: at step = u32::MAX it overflows (ovf), and wraps to 0 where
\* the build does not check.
lane_k(step) ==
    IF step % 2 = 1
    THEN [lane |-> 0, k |-> (((step + 1) % U32Mod) \div 2), ovf |-> (step + 1 >= U32Mod)]
    ELSE [lane |-> 1, k |-> (step \div 2), ovf |-> FALSE]

pidx_of(x, y) == (y * W) + x

RGCanvas_new(full) ==
    LET init == IF full THEN RG_LIMIT_EXACT ELSE 0
    IN  [r |-> [i \in 0..(PIXELS - 1) |-> init], g |-> [i \in 0..(PIXELS - 1) |-> init]]

\* ------------------------------------------------------------- ABitset
\* db: pidx -> (page -> mask), both maps as functions on their key sets.
ABitset_new == << >>

MapPut(f, key, v) == [x \in (DOMAIN f) \cup {key} |-> IF x = key THEN v ELSE f[x]]
MapDel(f, key) == [x \in (DOMAIN f) \ {key} |-> f[x]]
OrBit(m, b) == IF Bit(m, b) = 1 THEN m ELSE m + 2^b

set_step(a, pidx, step) ==
    LET page == step \div PageSize
        bit == step % PageSize
        pages == IF pidx \in DOMAIN a THEN a[pidx] ELSE << >>
        entry == IF page \in DOMAIN pages THEN pages[page] ELSE 0
    IN  MapPut(a, pidx, MapPut(pages, page, OrBit(entry, bit)))

\* Mutant: the bit is not tested before it is cleared.
clear_step_no_bit_test(a, pidx, step) ==
    LET page == step \div PageSize
        bit == step % PageSize
    IN  IF pidx \notin DOMAIN a THEN [err |-> "A mismatch: missing pidx", a |-> a]
        ELSE IF page \notin DOMAIN a[pidx] THEN [err |-> "A mismatch: missing page", a |-> a]
        ELSE LET word == a[pidx][page] - (Bit(a[pidx][page], bit) * 2^bit)
                 pages == IF word = 0 THEN MapDel(a[pidx], page)
                          ELSE MapPut(a[pidx], page, word)
             IN  [err |-> "Ok",
                  a |-> IF word = 0 /\ DOMAIN pages = {} THEN MapDel(a, pidx)
                        ELSE MapPut(a, pidx, pages)]

\* Mutant: a cell whose last page was removed keeps its (empty) entry.
clear_step_keep_cell(a, pidx, step) ==
    LET page == step \div PageSize
        bit == step % PageSize
    IN  IF pidx \notin DOMAIN a THEN [err |-> "A mismatch: missing pidx", a |-> a]
        ELSE IF page \notin DOMAIN a[pidx] THEN [err |-> "A mismatch: missing page", a |-> a]
        ELSE IF Bit(a[pidx][page], bit) = 0 THEN [err |-> "A mismatch: bit already 0", a |-> a]
        ELSE LET word == a[pidx][page] - 2^bit
                 pages == IF word = 0 THEN MapDel(a[pidx], page)
                          ELSE MapPut(a[pidx], page, word)
             IN  [err |-> "Ok", a |-> MapPut(a, pidx, pages)]

\* clear_step: [err, a]; a is the marker set after the call.
clear_step(a, pidx, step) ==
    LET page == step \div PageSize
        bit == step % PageSize
    IN  IF pidx \notin DOMAIN a THEN [err |-> "A mismatch: missing pidx", a |-> a]
        ELSE IF page \notin DOMAIN a[pidx] THEN [err |-> "A mismatch: missing page", a |-> a]
        ELSE IF Bit(a[pidx][page], bit) = 0 THEN [err |-> "A mismatch: bit already 0", a |-> a]
        ELSE LET word == a[pidx][page] - 2^bit
                 pages == IF word = 0 THEN MapDel(a[pidx], page)
                          ELSE MapPut(a[pidx], page, word)
             IN  [err |-> "Ok",
                  a |-> IF word = 0 /\ DOMAIN pages = {} THEN MapDel(a, pidx)
                        ELSE MapPut(a, pidx, pages)]

is_empty(a) == DOMAIN a = {}


\* ------------------------------------------------- iteration orders
\* A HashMap iterates in an arbitrary order.  Every order of a key set of
\* at most MaxPerm keys is considered; of a larger one the ascending and
\* the descending order.
MaxPerm == 2

Perms(S) ==
    {s \in [1..Cardinality(S) -> S] : \A i, j \in 1..Cardinality(S) : i # j => s[i] # s[j]}

RECURSIVE Asc(_)
Asc(S) ==
    IF S = {} THEN <<>>
    ELSE LET m == CHOOSE x \in S : \A y \in S : x <= y
         IN  <<m>> \o Asc(S \ {m})

Reverse(s) == [i \in 1..Len(s) |-> s[Len(s) + 1 - i]]

KeyOrders(S) ==
    IF Cardinality(S) <= MaxPerm THEN Perms(S) ELSE {Asc(S), Reverse(Asc(S))}

\* ------------------------------------------- build_step_index_from_a
\* The set bits of A as (pidx, page, bit) triples, and the orders in which
\* the nested iteration over a.db may meet them.
BitKey(t) == (((t[1] * U32Mod) + t[2]) * PageSize) + t[3]
KeyBit(k) == <<(k \div PageSize) \div U32Mod, (k \div PageSize) % U32Mod, k % PageSize>>

BitsOf(a) ==
    UNION {UNION {{<<p, pg, b>> : b \in {c \in 0..(PageSize - 1) : Bit(a[p][pg], c) = 1}}
                  : pg \in DOMAIN a[p]} : p \in DOMAIN a}

ScanOrders(a) ==
    {[i \in DOMAIN o |-> KeyBit(o[i])] : o \in KeyOrders({BitKey(t) : t \in BitsOf(a)})}

\* step = base + tz with base = page << 6 in u32: the high bits of page are
\* shifted out.
StepOfBit(page, tz) == ((page * PageSize) % U32Mod) + tz

\* Mutant: the k-th bit met is taken for step k, as if a.db iterated in
\* step order.
RECURSIVE ScanBits_by_position(_, _, _, _)
ScanBits_by_position(bits, n, seen, step_to_pidx) ==
    IF bits = <<>> THEN [err |-> "Ok", seen |-> seen, step_to_pidx |-> step_to_pidx]
    ELSE LET pidx == Head(bits)[1]
             step == Cardinality({s \in DOMAIN seen : seen[s] # 0}) + 1
         IN  IF step >= 1 /\ step <= n
             THEN ScanBits_by_position(Tail(bits), n, [seen EXCEPT ![step] = 1],
                                       [step_to_pidx EXCEPT ![step] = pidx])
             ELSE ScanBits_by_position(Tail(bits), n, seen, step_to_pidx)

RECURSIVE ScanBits(_, _, _, _)
ScanBits(bits, n, seen, step_to_pidx) ==
    IF bits = <<>> THEN [err |-> "Ok", seen |-> seen, step_to_pidx |-> step_to_pidx]
    ELSE LET pidx == Head(bits)[1]
             step == StepOfBit(Head(bits)[2], Head(bits)[3])
         IN  IF step >= 1 /\ step <= n
             THEN IF seen[step] # 0
                  THEN [err |-> "step collision in A", seen |-> seen,
                        step_to_pidx |-> step_to_pidx]
                  ELSE ScanBits(Tail(bits), n, [seen EXCEPT ![step] = 1],
                                [step_to_pidx EXCEPT ![step] = pidx])
             ELSE ScanBits(Tail(bits), n, seen, step_to_pidx)

\* Mutant: the check that every step in [1, n] was seen is left out.
build_step_index_no_missing_check(bits, n) ==
    LET scan == ScanBits(bits, n, [s \in 0..n |-> 0], [s \in 0..n |-> 0])
    IN  [err |-> scan.err, step_to_pidx |-> scan.step_to_pidx]

\* [err, step_to_pidx] for the iteration order `bits` of a.db.
build_step_index_from_a(bits, n) ==
    LET scan == ScanBits(bits, n, [s \in 0..n |-> 0], [s \in 0..n |-> 0])
    IN  IF scan.err # "Ok" THEN [err |-> scan.err, step_to_pidx |-> scan.step_to_pidx]
        ELSE IF \E s \in 1..n : scan.seen[s] = 0
             THEN [err |-> "missing step in A", step_to_pidx |-> scan.step_to_pidx]
             ELSE [err |-> "Ok", step_to_pidx |-> scan.step_to_pidx]

\* ------------------------------------------------------------ raw_pack
RECURSIVE PackPages(_, _)
PackPages(pages, order) ==
    IF order = <<>> THEN <<>>
    ELSE to_le_bytes(Head(order), U32Bytes) \o to_le_bytes(pages[Head(order)], MaskBytes)
         \o PackPages(pages, Tail(order))

\* One entry: pidx, pcnt = pages.len() as u16, then the pages in any order.
PackEntry(a, pidx) ==
    {to_le_bytes(pidx, U32Bytes)
     \o to_le_bytes(Cardinality(DOMAIN a[pidx]) % U16Mod, U16Bytes)
     \o PackPages(a[pidx], order) : order \in KeyOrders(DOMAIN a[pidx])}

RECURSIVE PackEntries(_, _)
PackEntries(a, order) ==
    IF order = <<>> THEN {<<>>}
    ELSE {e \o rest : e \in PackEntry(a, Head(order)), rest \in PackEntries(a, Tail(order))}

RECURSIVE PackPlane(_, _)
PackPlane(plane, i) ==
    IF i >= PIXELS THEN <<>>
    ELSE to_le_bytes(plane[i], U64Bytes) \o PackPlane(plane, i + 1)

PackHeader(rg, a, n) ==
    MAGIC \o to_le_bytes(W, U32Bytes) \o to_le_bytes(H, U32Bytes)
    \o to_le_bytes(n, U32Bytes) \o to_le_bytes(RG_LIMIT_EXACT, U64Bytes)
    \o PackPlane(rg.r, 0) \o PackPlane(rg.g, 0)
    \o to_le_bytes(Cardinality(DOMAIN a) % U32Mod, U32Bytes)

\* Every byte sequence raw_pack can return: one per iteration order.
raw_pack(rg, a, n) ==
    {PackHeader(rg, a, n) \o es :
        es \in UNION {PackEntries(a, order) : order \in KeyOrders(DOMAIN a)}}

\* ---------------------------------------------------------- raw_unpack
HeaderLen == 4 + (3 * U32Bytes) + U64Bytes
PlanesLen == 2 * PIXELS * U64Bytes

Rd(raw, off, nb) == from_le_bytes(SubSeq(raw, off + 1, off + nb))

RECURSIVE ParsePages(_, _, _, _)
ParsePages(raw, off, pcnt, pages) ==
    IF pcnt = 0 THEN [err |-> "Ok", off |-> off, pages |-> pages]
    ELSE IF off + U32Bytes > Len(raw)
         THEN [err |-> "unexpected eof", off |-> off, pages |-> pages]
    ELSE IF off + U32Bytes + MaskBytes > Len(raw)
         THEN [err |-> "unexpected eof", off |-> off + U32Bytes, pages |-> pages]
    ELSE ParsePages(raw, off + U32Bytes + MaskBytes, pcnt - 1,
                    MapPut(pages, Rd(raw, off, U32Bytes), Rd(raw, off + U32Bytes, MaskBytes)))

RECURSIVE ParseEntries(_, _, _, _)
ParseEntries(raw, off, entry_count, a) ==
    IF entry_count = 0 THEN [err |-> "Ok", off |-> off, a |-> a]
    ELSE IF off + U32Bytes > Len(raw)
         THEN [err |-> "unexpected eof", off |-> off, a |-> a]
    ELSE IF off + U32Bytes + U16Bytes > Len(raw)
         THEN [err |-> "unexpected eof", off |-> off + U32Bytes, a |-> a]
    ELSE LET pidx == Rd(raw, off, U32Bytes)
             pcnt == Rd(raw, off + U32Bytes, U16Bytes)
             pp == ParsePages(raw, off + U32Bytes + U16Bytes, pcnt, << >>)
         IN  IF pp.err # "Ok" THEN [err |-> pp.err, off |-> pp.off, a |-> a]
             ELSE ParseEntries(raw, pp.off, entry_count - 1, MapPut(a, pidx, pp.pages))

UnpackFail(err, off) ==
    [err |-> err, off |-> off, rg |-> RGCanvas_new(FALSE), a |-> ABitset_new, n |-> 0]

\* The header fields w, h, n, rg_limit are read in turn, each read failing
\* at the end of the buffer; off is the read position when the function
\* returns.
FieldEnd(i) == 4 + (U32Bytes * i)
HeaderEof(raw) ==
    IF Len(raw) < FieldEnd(1) THEN FieldEnd(0)
    ELSE IF Len(raw) < FieldEnd(2) THEN FieldEnd(1)
    ELSE IF Len(raw) < FieldEnd(3) THEN FieldEnd(2)
    ELSE FieldEnd(3)

UnpackBody(raw) ==
    LET rem == Len(raw) - HeaderLen
    IN  IF rem < PlanesLen
        THEN UnpackFail("unexpected eof", HeaderLen + (U64Bytes * (rem \div U64Bytes)))
        ELSE IF rem < PlanesLen + U32Bytes
        THEN UnpackFail("unexpected eof", HeaderLen + PlanesLen)
        ELSE LET es == ParseEntries(raw, HeaderLen + PlanesLen + U32Bytes,
                                    Rd(raw, HeaderLen + PlanesLen, U32Bytes), ABitset_new)
             IN  IF es.err # "Ok" THEN UnpackFail(es.err, es.off)
                 ELSE [err |-> "Ok", off |-> es.off,
                       rg |-> [r |-> [i \in 0..(PIXELS - 1) |->
                                        Rd(raw, HeaderLen + (U64Bytes * i), U64Bytes)],
                               g |-> [i \in 0..(PIXELS - 1) |->
                                        Rd(raw, HeaderLen + (U64Bytes * (PIXELS + i)), U64Bytes)]],
                       a |-> es.a,
                       n |-> Rd(raw, FieldEnd(2), U32Bytes)]

\* Mutant: the magic tag is compared after the header was read.
raw_unpack_magic_late(raw) ==
    IF Len(raw) < 4 THEN UnpackFail("raw too small", 0)
    ELSE IF Len(raw) < HeaderLen THEN UnpackFail("unexpected eof", HeaderEof(raw))
    ELSE IF SubSeq(raw, 1, 4) # MAGIC THEN UnpackFail("bad magic", HeaderLen)
    ELSE IF Rd(raw, FieldEnd(0), U32Bytes) # W \/ Rd(raw, FieldEnd(1), U32Bytes) # H
         THEN UnpackFail("bad dims", HeaderLen)
    ELSE IF Rd(raw, FieldEnd(3), U64Bytes) # RG_LIMIT_EXACT
         THEN UnpackFail("RG_LIMIT mismatch", HeaderLen)
    ELSE UnpackBody(raw)

\* Mutant: the dimensions are rejected only when both are wrong (&& for ||).
raw_unpack_dims_both(raw) ==
    IF Len(raw) < 4 THEN UnpackFail("raw too small", 0)
    ELSE IF SubSeq(raw, 1, 4) # MAGIC THEN UnpackFail("bad magic", 0)
    ELSE IF Len(raw) < HeaderLen THEN UnpackFail("unexpected eof", HeaderEof(raw))
    ELSE IF Rd(raw, FieldEnd(0), U32Bytes) # W /\ Rd(raw, FieldEnd(1), U32Bytes) # H
         THEN UnpackFail("bad dims", HeaderLen)
    ELSE IF Rd(raw, FieldEnd(3), U64Bytes) # RG_LIMIT_EXACT
         THEN UnpackFail("RG_LIMIT mismatch", HeaderLen)
    ELSE UnpackBody(raw)

raw_unpack(raw) ==
    IF Len(raw) < 4 THEN UnpackFail("raw too small", 0)
    ELSE IF SubSeq(raw, 1, 4) # MAGIC THEN UnpackFail("bad magic", 0)
    ELSE IF Len(raw) < HeaderLen THEN UnpackFail("unexpected eof", HeaderEof(raw))
    ELSE IF Rd(raw, FieldEnd(0), U32Bytes) # W \/ Rd(raw, FieldEnd(1), U32Bytes) # H
         THEN UnpackFail("bad dims", HeaderLen)
    ELSE IF Rd(raw, FieldEnd(3), U64Bytes) # RG_LIMIT_EXACT
         THEN UnpackFail("RG_LIMIT mismatch", HeaderLen)
    ELSE UnpackBody(raw)

\* ---------------------------------------------------------------- state
VARIABLES
    payload,        \* encode_erase's argument
    build,          \* "debug": arithmetic overflow panics; "release": it wraps
    pc,             \* where the run is
    n, step,        \* the step count and the loop variable of the running function
    rg, a,          \* the canvas and the marker set of the running function
    packed,         \* the container encode_erase returned
    raw,            \* decode_fill's argument
    tamper,         \* what was changed in the container after encoding
    off,            \* raw_unpack's read position when it returned
    step_to_pidx,   \* decode_fill's step index
    out,            \* decode_fill's output buffer
    err,            \* the result of the function that returned last
    call            \* the last call made on the marker set by a caller of ABitset

vars ==
    <<payload, build, pc, n, step, rg, a, packed, raw, tamper, off, step_to_pidx, out, err,
      call>>

\* ---------------------------------------------------------------- inputs
\* Every payload of at most MaxLen bytes, and the all-zero payloads of the
\* shortest length that puts U16Mod pages into one cell and of the lengths
\* around the largest a u32 counts.
MaxLen == 2
Byte == 0..(U8Mod - 1)
ZeroLens == {(H * (U16Mod - 1)) + 1} \cup ((U32Mod - 1)..(U32Mod + 1))
Payloads ==
    UNION {[1..l -> Byte] : l \in 0..MaxLen}
    \cup {[i \in 1..l |-> 0] : l \in ZeroLens}

NoTamper == [kind |-> "none", at |-> 0, v |-> 0]
NoCall == [op |-> "none", pidx |-> 0, step |-> 0, before |-> << >>]

Init ==
    /\ payload \in Payloads
    /\ build \in {"debug", "release"}
    /\ pc = "encode"
    /\ n = 0
    /\ step = 0
    /\ rg = RGCanvas_new(FALSE)
    /\ a = ABitset_new
    /\ packed = <<>>
    /\ raw = <<>>
    /\ tamper = NoTamper
    /\ off = 0
    /\ step_to_pidx = <<>>
    /\ out = <<>>
    /\ err = "none"
    /\ call = NoCall

\* -------------------------------------------------------- encode_erase
\* n = payload.len() as u32; the empty-payload check; the fresh canvas and
\* marker set.
EncodeBegin ==
    /\ pc = "encode"
    /\ n' = Len(payload) % U32Mod
    /\ IF n' = 0
       THEN /\ err' = "empty payload"
            /\ pc' = "enc_fail"
            /\ UNCHANGED <<rg, a, step>>
       ELSE /\ rg' = RGCanvas_new(TRUE)
            /\ a' = ABitset_new
            /\ step' = n'
            /\ pc' = "enc_loop"
            /\ UNCHANGED err
    /\ UNCHANGED <<call, payload, build, packed, raw, tamper, off, step_to_pidx, out>>

Lane(canvas, lane) == IF lane = 0 THEN canvas.r ELSE canvas.g
SetLane(canvas, lane, pidx, v) ==
    IF lane = 0 THEN [canvas EXCEPT !.r[pidx] = v] ELSE [canvas EXCEPT !.g[pidx] = v]

\* One iteration of the loop `for step in (1..=n).rev()`.
EncodeStep ==
    /\ pc = "enc_loop"
    /\ step >= 1
    /\ LET x == payload[step]
           y == step % H
           pidx == pidx_of(x, y)
           lk == lane_k(step)
           v == Lane(rg, lk.lane)[pidx]
       IN  /\ a' = set_step(a, pidx, step)
           /\ IF lk.ovf /\ build = "debug"
              THEN /\ pc' = "enc_panic"
                   /\ UNCHANGED <<rg, step, err>>
              ELSE IF v < lk.k
              THEN /\ err' = (IF lk.lane = 0 THEN "R underflow encode" ELSE "G underflow encode")
                   /\ pc' = "enc_fail"
                   /\ UNCHANGED <<rg, step>>
              ELSE /\ rg' = SetLane(rg, lk.lane, pidx, v - lk.k)
                   /\ step' = step - 1
                   /\ UNCHANGED <<pc, err>>
    /\ UNCHANGED <<call, payload, build, n, packed, raw, tamper, off, step_to_pidx, out>>

\* The loop is over: Ok(raw_pack(&rg, &a, n)).
EncodePack ==
    /\ pc = "enc_loop"
    /\ step = 0
    /\ packed' \in raw_pack(rg, a, n)
    /\ raw' = packed'
    /\ err' = "Ok"
    /\ pc' = "packed"
    /\ UNCHANGED <<call, payload, build, n, step, rg, a, tamper, off, step_to_pidx, out>>

\* ------------------------------------------- changes to the container
\* Between encoding and decoding the container may be changed once: one
\* byte set to another value, the magic tag or one plane value replaced, the
\* buffer cut short, the marker bit of one step cleared, or one step moved
\* to another cell.  Of the
\* containers of payloads longer than MaxLen only the marker entries are
\* changed.
TamperValues == {0, RG_LIMIT_EXACT + 1, U64Mod - 1}
PlaneOff(lane, cell) == HeaderLen + (U64Bytes * ((lane * PIXELS) + cell))
Splice(s, at, t) ==
    [i \in 1..Len(s) |-> IF i > at /\ i <= at + Len(t) THEN t[i - at] ELSE s[i]]

CanTamper == pc = "packed" /\ tamper.kind = "none" /\ Len(payload) <= MaxLen

\* One byte of the header or of the marker entries; the plane values are
\* changed whole by TamperPlane.
TamperByte ==
    /\ CanTamper
    /\ \E i \in 1..Len(raw), b \in 0..(ByteMod - 1) :
          /\ i <= HeaderLen \/ i > HeaderLen + PlanesLen
          /\ b # raw[i]
          /\ raw' = [raw EXCEPT ![i] = b]
          /\ tamper' = [kind |-> "byte", at |-> i - 1, v |-> b]
    /\ UNCHANGED <<call, payload, build, pc, n, step, rg, a, packed, off, step_to_pidx, out, err>>

TamperPlane ==
    /\ CanTamper
    /\ \E lane \in 0..1, cell \in 0..(PIXELS - 1), v \in TamperValues :
          /\ raw' = Splice(raw, PlaneOff(lane, cell), to_le_bytes(v, U64Bytes))
          /\ raw' # raw
          /\ tamper' = [kind |-> "plane", at |-> (lane * PIXELS) + cell, v |-> v]
    /\ UNCHANGED <<call, payload, build, pc, n, step, rg, a, packed, off, step_to_pidx, out, err>>

TamperMagic ==
    /\ CanTamper
    /\ \E m \in [1..4 -> 0..(ByteMod - 1)] :
          /\ m # MAGIC
          /\ raw' = Splice(raw, 0, m)
          /\ tamper' = [kind |-> "magic", at |-> 0, v |-> from_le_bytes(m)]
    /\ UNCHANGED <<call, payload, build, pc, n, step, rg, a, packed, off, step_to_pidx, out, err>>

\* The container of the encoder's canvas and of its marker set with the bit
\* of step s cleared by clear_step, for a payload of any length.
TamperClearStep ==
    /\ pc = "packed" /\ tamper.kind = "none"
    /\ \E s \in 1..n, c \in DOMAIN a :
          /\ clear_step(a, c, s).err = "Ok"
          /\ raw' \in raw_pack(rg, clear_step(a, c, s).a, n)
          /\ tamper' = [kind |-> "clear", at |-> s, v |-> c]
    /\ UNCHANGED <<call, payload, build, pc, n, step, rg, a, packed, off, step_to_pidx, out, err>>

\* The container of a canvas and a marker set in which step s, with its
\* weight, sits at another cell than the one the encoder put it at.
TamperMoveStep ==
    /\ CanTamper
    /\ \E s \in 1..n, c \in DOMAIN a, c2 \in 0..(PIXELS - 1) :
          LET lk == lane_k(s)
              moved == set_step(clear_step(a, c, s).a, c2, s)
              back == SetLane(rg, lk.lane, c, Lane(rg, lk.lane)[c] + lk.k)
              canvas == SetLane(back, lk.lane, c2, Lane(back, lk.lane)[c2] - lk.k)
          IN  /\ clear_step(a, c, s).err = "Ok"
              /\ c2 # c
              /\ Lane(back, lk.lane)[c2] >= lk.k
              /\ raw' \in raw_pack(canvas, moved, n)
              /\ tamper' = [kind |-> "move", at |-> s, v |-> c2]
    /\ UNCHANGED <<call, payload, build, pc, n, step, rg, a, packed, off, step_to_pidx, out, err>>

\* A strict prefix of the container; of the container of a payload longer
\* than MaxLen, the prefixes that end after the planes.
TamperTruncate ==
    /\ pc = "packed" /\ tamper.kind = "none"
    /\ \E len \in 0..(Len(raw) - 1) :
          /\ Len(payload) <= MaxLen \/ len >= HeaderLen + PlanesLen
          /\ raw' = SubSeq(raw, 1, len)
          /\ tamper' = [kind |-> "truncate", at |-> len, v |-> 0]
    /\ UNCHANGED <<call, payload, build, pc, n, step, rg, a, packed, off, step_to_pidx, out, err>>

\* --------------------------------------------------------- decode_fill
\* The state of one decode_fill invocation, as a record.
\* raw_unpack(raw)?, build_step_index_from_a(&a, n)? for the iteration order
\* `bits` of a.db, then the output buffer.
DecodeEnter(u, bits) ==
    LET ix == build_step_index_from_a(bits, u.n)
        ok == u.err = "Ok" /\ ix.err = "Ok"
    IN  [pc |-> IF ok THEN "dec_loop" ELSE "dec_fail",
         err |-> IF u.err # "Ok" THEN u.err ELSE IF ix.err # "Ok" THEN ix.err ELSE "none",
         off |-> u.off, rg |-> u.rg, a |-> u.a, n |-> u.n,
         step |-> IF ok THEN u.n ELSE 0,
         step_to_pidx |-> IF ok THEN ix.step_to_pidx ELSE <<>>,
         out |-> IF ok THEN [i \in 1..u.n |-> 0] ELSE <<>>]

\* One iteration of the loop `for step in (1..=n).rev()`.  Indexing a plane
\* at pidx >= PIXELS panics; rg.r[pidx] + k is a u64 addition, which panics
\* on overflow where the build checks it and wraps where it does not.
DecodeIter(s, bld) ==
    LET pidx == s.step_to_pidx[s.step]
        x == (pidx % W) % U8Mod
        cs == clear_step(s.a, pidx, s.step)
        lk == lane_k(s.step)
        sum == Lane(s.rg, lk.lane)[pidx] + lk.k
        v == sum % U64Mod
        s1 == [s EXCEPT !.out[s.step] = x]
    IN  IF cs.err # "Ok" THEN [s1 EXCEPT !.pc = "dec_fail", !.err = cs.err]
        ELSE IF lk.ovf /\ bld = "debug" THEN [s1 EXCEPT !.pc = "dec_panic", !.a = cs.a]
        ELSE IF pidx >= PIXELS THEN [s1 EXCEPT !.pc = "dec_panic", !.a = cs.a]
        ELSE IF sum >= U64Mod /\ bld = "debug" THEN [s1 EXCEPT !.pc = "dec_panic", !.a = cs.a]
        ELSE IF v > RG_LIMIT_EXACT
             THEN [s1 EXCEPT !.pc = "dec_fail", !.a = cs.a,
                             !.err = IF lk.lane = 0 THEN "R overflow decode"
                                     ELSE "G overflow decode"]
        ELSE [s1 EXCEPT !.a = cs.a, !.rg = SetLane(s.rg, lk.lane, pidx, v),
                        !.step = s.step - 1]

\* Mutant: the planes are not compared with LIMIT at the end.
DecodeEnd_markers_only(s) ==
    IF ~is_empty(s.a)
    THEN [s EXCEPT !.pc = "dec_fail", !.err = "A not empty after decode"]
    ELSE [s EXCEPT !.pc = "dec_done", !.err = "Ok"]

\* The loop is over: the two final checks, then Ok(out).
DecodeEnd(s) ==
    IF ~is_empty(s.a)
    THEN [s EXCEPT !.pc = "dec_fail", !.err = "A not empty after decode"]
    ELSE IF \E i \in 0..(PIXELS - 1) :
               s.rg.r[i] # RG_LIMIT_EXACT \/ s.rg.g[i] # RG_LIMIT_EXACT
    THEN [s EXCEPT !.pc = "dec_fail", !.err = "RG not FULL after decode"]
    ELSE [s EXCEPT !.pc = "dec_done", !.err = "Ok"]

RECURSIVE DecodeRun(_, _)
DecodeRun(s, bld) ==
    IF s.pc # "dec_loop" THEN s
    ELSE IF s.step = 0 THEN DecodeEnd(s)
    ELSE DecodeRun(DecodeIter(s, bld), bld)

\* decode_fill as a function of its argument, of the iteration order of
\* a.db and of the build: the state it returns (or panics) in.
decode_fill(buf, bits, bld) == DecodeRun(DecodeEnter(raw_unpack(buf), bits), bld)

Current ==
    [pc |-> pc, err |-> err, off |-> off, rg |-> rg, a |-> a, n |-> n, step |-> step,
     step_to_pidx |-> step_to_pidx, out |-> out]

Load(s) ==
    /\ pc' = s.pc
    /\ err' = s.err
    /\ off' = s.off
    /\ rg' = s.rg
    /\ a' = s.a
    /\ n' = s.n
    /\ step' = s.step
    /\ step_to_pidx' = s.step_to_pidx
    /\ out' = s.out

DecodeBegin ==
    /\ pc = "packed"
    /\ \E bits \in ScanOrders(raw_unpack(raw).a) : Load(DecodeEnter(raw_unpack(raw), bits))
    /\ UNCHANGED <<call, payload, build, packed, raw, tamper>>

DecodeStep ==
    /\ pc = "dec_loop"
    /\ step >= 1
    /\ Load(DecodeIter(Current, build))
    /\ UNCHANGED <<call, payload, build, packed, raw, tamper>>

DecodeFinish ==
    /\ pc = "dec_loop"
    /\ step = 0
    /\ Load(DecodeEnd(Current))
    /\ UNCHANGED <<call, payload, build, packed, raw, tamper>>

Next ==
    \/ EncodeBegin
    \/ EncodeStep
    \/ EncodePack
    \/ TamperByte
    \/ TamperPlane
    \/ TamperMagic
    \/ TamperClearStep
    \/ TamperMoveStep
    \/ TamperTruncate
    \/ DecodeBegin
    \/ DecodeStep
    \/ DecodeFinish

Spec == Init /\ [][Next]_vars

\* ------------------------------------------------- ABitset on its own
\* A caller of ABitset: starting from ABitset::new(), any sequence of
\* set_step and clear_step calls on the cells ACells and the steps 0..MaxStep.
\* call.before is the marker set the last call was made on.
MaxStep == 2
ACells == {0, PIXELS - 1}
ASteps == 0..MaxStep

Idle ==
    /\ payload = <<>>
    /\ build = "release"
    /\ step = 0
    /\ rg = RGCanvas_new(FALSE)
    /\ packed = <<>>
    /\ raw = <<>>
    /\ tamper = NoTamper
    /\ off = 0
    /\ step_to_pidx = <<>>
    /\ out = <<>>

InitA ==
    /\ Idle
    /\ pc = "abitset"
    /\ a = ABitset_new
    /\ n = 0
    /\ err = "none"
    /\ call = NoCall

SetStep ==
    /\ pc = "abitset"
    /\ \E c \in ACells, s \in ASteps :
          /\ a' = set_step(a, c, s)
          /\ err' = "Ok"
          /\ call' = [op |-> "set_step", pidx |-> c, step |-> s, before |-> a]
    /\ UNCHANGED <<payload, build, pc, n, step, rg, packed, raw, tamper, off, step_to_pidx, out>>

ClearStep ==
    /\ pc = "abitset"
    /\ \E c \in ACells, s \in ASteps :
          /\ a' = clear_step(a, c, s).a
          /\ err' = clear_step(a, c, s).err
          /\ call' = [op |-> "clear_step", pidx |-> c, step |-> s, before |-> a]
    /\ UNCHANGED <<payload, build, pc, n, step, rg, packed, raw, tamper, off, step_to_pidx, out>>

NextA ==
    \/ SetStep
    \/ ClearStep

SpecA == InitA /\ [][NextA]_vars

\* ------------------------------------ build_step_index_from_a on its own
\* The builder is applied to a marker set as raw_unpack can return one (cell
\* and page indices are any u32, a cell may have no page) and to a step
\* count n <= MaxN.  IdxPages holds a page whose index does not survive the
\* u32 shift `page << 6`.
MaxN == 2
IdxCells == {0, PIXELS - 1}
IdxPages == {0, 1, U32Mod \div PageSize}
PageMaps == UNION {[ps -> 1..(MaskMod - 1)] : ps \in SUBSET IdxPages}
IndexSets == UNION {[cs -> PageMaps] : cs \in SUBSET IdxCells}

InitIndex ==
    /\ Idle
    /\ pc = "index"
    /\ a \in IndexSets
    /\ n \in 0..MaxN
    /\ err = "none"
    /\ call = NoCall

\* let step_to_pidx = build_step_index_from_a(&a, n)
BuildIndex ==
    /\ pc = "index"
    /\ \E bits \in ScanOrders(a) :
          LET ix == build_step_index_from_a(bits, n)
          IN  /\ err' = ix.err
              /\ step_to_pidx' = IF ix.err = "Ok" THEN ix.step_to_pidx ELSE <<>>
              /\ pc' = IF ix.err = "Ok" THEN "indexed" ELSE "index_fail"
    /\ UNCHANGED <<call, payload, build, n, step, rg, a, packed, raw, tamper, off, out>>

NextIndex == BuildIndex

SpecIndex == InitIndex /\ [][NextIndex]_vars

\* ---------------------------------------------------------------- claims
DecStates == {"dec_loop", "dec_fail", "dec_panic", "dec_done"}
Returned == pc \in {"enc_fail", "enc_panic", "dec_fail", "dec_panic", "dec_done"}
Untampered == tamper.kind = "none"
MagicOk == Len(raw) >= 4 /\ SubSeq(raw, 1, 4) = MAGIC
Full(canvas) ==
    \A i \in 0..(PIXELS - 1) : canvas.r[i] = RG_LIMIT_EXACT /\ canvas.g[i] = RG_LIMIT_EXACT

\* C1: round trip.  For every non-empty payload P, decode_fill(encode_erase(P))
\* succeeds and returns exactly P.  Stated here for the payloads whose length
\* is below u32::MAX, which the step counter holds without any wrap-around:
\* every run on such a payload that has returned, returned the payload.
C1_RoundTrip ==
    (Untampered /\ Returned /\ Len(payload) >= 1 /\ Len(payload) < U32Mod - 1)
        => (pc = "dec_done" /\ err = "Ok" /\ out = payload)

\* C2: encode_erase fails with the empty-payload error, producing no
\* container, exactly for the zero-length payload; for a payload of length
\* >= 1 it does not fail.
C2_EmptyPayloadOnly ==
    pc # "encode" =>
        IF Len(payload) = 0
        THEN pc = "enc_fail" /\ err = "empty payload" /\ packed = <<>>
        ELSE pc \notin {"enc_fail", "enc_panic"}

\* C3: a buffer whose first four bytes are not the magic tag is rejected by
\* raw_unpack, hence by decode_fill, with the bad-magic format error, at read
\* position 0: no header field, plane value or marker entry was read.
C3_BadMagicRejected ==
    (pc \in DecStates /\ Len(raw) >= 4 /\ SubSeq(raw, 1, 4) # MAGIC)
        => /\ pc = "dec_fail"
           /\ err = "bad magic"
           /\ off = 0
           /\ a = << >>
           /\ step_to_pidx = <<>>
           /\ out = <<>>

C3_Witness ==
    pc = "dec_fail" /\ err = "bad magic" /\ tamper.kind = "magic" /\ off = 0

\* C4: a container with the right magic and a complete header whose width or
\* height is not W x H, or whose limit is not LIMIT, is rejected with a format
\* error (bad dims, else limit mismatch) at the end of the header: no plane
\* value and no marker entry was read.
HdrW == from_le_bytes(SubSeq(raw, 5, 8))
HdrH == from_le_bytes(SubSeq(raw, 9, 12))
HdrLimit == from_le_bytes(SubSeq(raw, 17, 24))
C4_BadHeaderRejected ==
    (pc \in DecStates /\ MagicOk /\ Len(raw) >= 24
     /\ (HdrW # W \/ HdrH # H \/ HdrLimit # RG_LIMIT_EXACT))
        => /\ pc = "dec_fail"
           /\ err = (IF HdrW # W \/ HdrH # H THEN "bad dims" ELSE "RG_LIMIT mismatch")
           /\ off = 24
           /\ a = << >>
           /\ \A i \in 0..(PIXELS - 1) : rg.r[i] = 0 /\ rg.g[i] = 0
           /\ out = <<>>

C4_Witness ==
    pc = "dec_fail" /\ err = "RG_LIMIT mismatch" /\ tamper.kind = "byte"
    /\ MagicOk /\ HdrW = W /\ HdrH = H

\* C5: decode_fill returns a payload only from the end of its loop with the
\* marker set empty and every cell of both planes at LIMIT; when the loop
\* ends with a marker left or a cell off LIMIT, it returns an error.
C5_FinalChecks ==
    /\ [](pc = "dec_done" => (step = 0 /\ err = "Ok" /\ DOMAIN a = {} /\ Full(rg)))
    /\ [][(pc' = "dec_done" /\ pc # "dec_done") => (pc = "dec_loop" /\ step = 0)]_vars
    /\ [][(pc = "dec_loop" /\ step = 0 /\ ~(DOMAIN a = {} /\ Full(rg)))
            => (pc' = "dec_fail"
                /\ err' \in {"A not empty after decode", "RG not FULL after decode"})]_vars

C5_Witness ==
    pc = "dec_fail" /\ step = 0 /\ err = "RG not FULL after decode" /\ DOMAIN a = {}
    /\ n >= 1 /\ ~Full(rg)

\* C6: between the steps of an encode and of a decode invocation every cell
\* of both planes holds a value in [0, LIMIT].
C6_PlaneRange ==
    pc \in {"enc_loop", "packed", "dec_loop", "dec_done"}
        => \A i \in 0..(PIXELS - 1) :
              /\ rg.r[i] >= 0 /\ rg.r[i] <= RG_LIMIT_EXACT
              /\ rg.g[i] >= 0 /\ rg.g[i] <= RG_LIMIT_EXACT

\* C7: for a fixed payload, whichever container raw_pack emits (any order of
\* the cell entries and of the pages of a cell) and in whichever order the
\* step index is built from it, decode_fill gives the same payload result:
\* the same payload from all of them, or a payload from none.
PayloadResult(s) == IF s.pc = "dec_done" THEN <<"Ok", s.out>> ELSE <<"no payload">>
PayloadResults ==
    UNION {{PayloadResult(decode_fill(c, bits, build)) : bits \in ScanOrders(raw_unpack(c).a)}
           : c \in raw_pack(rg, a, n)}
LacksBit(oa, ta, s) ==
    /\ DOMAIN ta = DOMAIN oa
    /\ \A p \in DOMAIN oa : DOMAIN ta[p] = DOMAIN oa[p]
    /\ \E c \in DOMAIN oa :
          /\ (s \div PageSize) \in DOMAIN oa[c]
          /\ Bit(oa[c][s \div PageSize], s % PageSize) = 1
          /\ \A p \in DOMAIN oa : \A pg \in DOMAIN oa[p] :
                ta[p][pg] = IF p = c /\ pg = s \div PageSize
                            THEN oa[p][pg] - 2^(s % PageSize) ELSE oa[p][pg]
MarkerBitCleared ==
    /\ pc \in DecStates
    /\ \/ tamper.kind = "clear"
       \/ /\ tamper.kind = "byte"
          /\ tamper.at >= HeaderLen + PlanesLen + U32Bytes
          /\ LET o == raw_unpack(packed)
                 t == raw_unpack(raw)
             IN  /\ o.err = "Ok" /\ t.err = "Ok"
                 /\ t.n = o.n /\ t.rg = o.rg
                 /\ \E s \in 1..o.n : LacksBit(o.a, t.a, s)

\* C8 as stated: decoding it fails with clear_step's marker-consistency error.
C8_ClearStepError ==
    MarkerBitCleared =>
        /\ pc = "dec_fail"
        /\ err \in {"A mismatch: missing pidx", "A mismatch: missing page",
                    "A mismatch: bit already 0"}

\* C8, amended: decoding it never returns a payload and never reports
\* clear_step's error; decode_fill fails before its step loop, in raw_unpack
\* or build_step_index_from_a, and when every cell of the encoder output has
\* a page count that fits its u16 field the failure is the missing-step error
\* of build_step_index_from_a.
PagesWritten(c) ==
    {s \div PageSize : s \in {t \in 1..Len(payload) : pidx_of(payload[t], t % H) = c}}
PageCountsFit == \A c \in 0..(PIXELS - 1) : Cardinality(PagesWritten(c)) < U16Mod
BeforeLoopErrors ==
    {"raw too small", "bad magic", "unexpected eof", "bad dims", "RG_LIMIT mismatch",
     "step collision in A", "missing step in A"}
C8_MissingStepError ==
    MarkerBitCleared =>
        /\ pc = "dec_fail" /\ out = <<>>
        /\ err \in BeforeLoopErrors
        /\ PageCountsFit => err = "missing step in A"

C8_Witness ==
    /\ MarkerBitCleared /\ tamper.kind = "clear" /\ PageCountsFit
    /\ pc = "dec_fail" /\ err = "missing step in A"

\* C9: a decode step that reaches the addition, on the value v of the step's
\* cell and lane and the step's weight k: if v + k exceeds LIMIT the step
\* fails with the overflow error and leaves the canvas as it is, otherwise
\* the cell becomes v + k.
Weight(s) == IF s % 2 = 1 THEN (s + 1) \div 2 ELSE s \div 2
C9_AddChecked ==
    [][(/\ pc = "dec_loop"
        /\ step >= 1
        /\ step_to_pidx[step] < PIXELS
        /\ ~(pc' = "dec_fail" /\ err' \in {"A mismatch: missing pidx",
                                           "A mismatch: missing page",
                                           "A mismatch: bit already 0"}))
       => LET cell == step_to_pidx[step]
              v == IF step % 2 = 1 THEN rg.r[cell] ELSE rg.g[cell]
          IN  IF v + Weight(step) > RG_LIMIT_EXACT
              THEN /\ pc' = "dec_fail"
                   /\ err' = (IF step % 2 = 1 THEN "R overflow decode"
                              ELSE "G overflow decode")
                   /\ rg' = rg
              ELSE /\ pc' = "dec_loop"
                   /\ rg' = (IF step % 2 = 1
                             THEN [rg EXCEPT !.r[cell] = v + Weight(step)]
                             ELSE [rg EXCEPT !.g[cell] = v + Weight(step)])]_vars

\* C10: after a successful encode of a payload of length N the marker set
\* holds exactly N bits, for each step s in [1, N] the bit (page s >> 6,
\* bit s & 63) at the cell pidx_of(payload[s-1], s mod 512); and during the
\* loop no step has a bit in two cells.
StepBits(len) ==
    {<<pidx_of(payload[s], s % H), s \div PageSize, s % PageSize>> : s \in 1..len}
C10_OneBitPerStep ==
    /\ (pc = "packed" /\ Untampered)
          => (BitsOf(a) = StepBits(Len(payload))
              /\ Cardinality(BitsOf(a)) = Len(payload))
    /\ pc = "enc_loop"
          => \A t1, t2 \in BitsOf(a) :
                (t1[2] = t2[2] /\ t1[3] = t2[3]) => t1[1] = t2[1]

\* C11: after every completed step of the encode loop, and at its end, each
\* cell holds in each lane LIMIT minus the sum of the weights of the steps
\* marked at that cell that belong to that lane (R: odd steps, weight
\* (s+1)/2; G: even steps, weight s/2).
MarkedSteps(ms, cell, lane) ==
    {(t[2] * PageSize) + t[3] : t \in {u \in BitsOf(ms) : u[1] = cell}}
        \cap {s \in 0..(U32Mod - 1) : s % 2 = 1 - lane}
RECURSIVE SumWeights(_)
SumWeights(S) ==
    IF S = {} THEN 0
    ELSE LET s == CHOOSE x \in S : TRUE IN Weight(s) + SumWeights(S \ {s})
C11_CanvasSums ==
    (pc \in {"enc_loop", "packed"} /\ Untampered)
        => \A cell \in 0..(PIXELS - 1), lane \in 0..1 :
              Lane(rg, lane)[cell] = RG_LIMIT_EXACT - SumWeights(MarkedSteps(a, cell, lane))

\* C12: clear_step(cell, step) returns a consistency error exactly when the
\* cell has no entry, the cell has no entry for the page step >> 6, or the bit
\* step & 63 of that page is 0; on an error the marker set is left as it was,
\* and on success that one bit is cleared and nothing else changes.
ConsistencyErrors ==
    {"A mismatch: missing pidx", "A mismatch: missing page", "A mismatch: bit already 0"}
CallPage == call.step \div PageSize
CallBit == call.step % PageSize
CallBitSet ==
    /\ call.pidx \in DOMAIN call.before
    /\ CallPage \in DOMAIN call.before[call.pidx]
    /\ Bit(call.before[call.pidx][CallPage], CallBit) = 1
C12_ClearStep ==
    call.op = "clear_step" =>
        /\ err \in ConsistencyErrors \cup {"Ok"}
        /\ err \in ConsistencyErrors <=> ~CallBitSet
        /\ err \in ConsistencyErrors => a = call.before
        /\ err = "Ok" =>
              /\ BitsOf(a) = BitsOf(call.before) \ {<<call.pidx, CallPage, CallBit>>}
              /\ \A p \in DOMAIN call.before \ {call.pidx} :
                    p \in DOMAIN a /\ a[p] = call.before[p]
              /\ \A q \in DOMAIN call.before[call.pidx] \ {CallPage} :
                    /\ call.pidx \in DOMAIN a
                    /\ q \in DOMAIN a[call.pidx]
                    /\ a[call.pidx][q] = call.before[call.pidx][q]

C12_Witness ==
    /\ call.op = "clear_step"
    /\ err = "A mismatch: bit already 0"
    /\ a = call.before
    /\ BitsOf(a) # {}

\* C20: after any sequence of set_step and clear_step calls, failing ones
\* included, from the empty marker set, no cell entry has zero pages and no
\* page has mask 0, so is_empty() is true iff no step bit is set; and a
\* set_step of a bit the set did not hold followed by the clear_step of the
\* same (cell, step) gives back the marker set from before the set_step.
NoEmptyEntry(ms) ==
    \A p \in DOMAIN ms : DOMAIN ms[p] # {} /\ \A q \in DOMAIN ms[p] : ms[p][q] # 0
C20_NoEmptyEntries ==
    /\ [](pc = "abitset" => (NoEmptyEntry(a) /\ (is_empty(a) <=> BitsOf(a) = {})))
    /\ [][(/\ call.op = "set_step"
            /\ ~CallBitSet
            /\ call'.op = "clear_step"
            /\ call'.pidx = call.pidx
            /\ call'.step = call.step)
           => (err' = "Ok" /\ a' = call.before)]_vars

C20_Witness ==
    /\ pc = "abitset"
    /\ call.op = "clear_step"
    /\ err = "Ok"
    /\ call.before # << >>
    /\ is_empty(a)

\* The step a marker bit encodes: page * 64 + bit, as a number.
StepEncoded(t) == (t[2] * PageSize) + t[3]
BitsFor(s) == {t \in BitsOf(a) : StepEncoded(t) = s}
IndexBuilt == pc \in {"indexed", "index_fail"}

\* C13: build_step_index_from_a(A, N) succeeds iff every step in [1, N] is
\* encoded by exactly one set bit of A; on success result[s] is the cell
\* holding that bit for every s in [1, N]; it fails with the collision error
\* if some step in [1, N] is encoded by more than one bit, and (no step being
\* encoded twice) with the missing-step error if some step is encoded by none.
C13_ExactlyOnce ==
    IndexBuilt =>
        /\ err = "Ok" <=> \A s \in 1..n : Cardinality(BitsFor(s)) = 1
        /\ err = "Ok" => \A s \in 1..n : \A t \in BitsFor(s) : step_to_pidx[s] = t[1]
        /\ (\E s \in 1..n : Cardinality(BitsFor(s)) > 1) => err = "step collision in A"
        /\ ((\E s \in 1..n : BitsFor(s) = {}) /\ (\A s \in 1..n : Cardinality(BitsFor(s)) <= 1))
              => err = "missing step in A"

\* C14: a bit whose step page * 64 + bit is 0 or greater than N is ignored by
\* the step-index builder: the result is the one for the marker set without
\* that bit, so the bit is recorded for no step in [1, N] and causes no
\* collision error.
InRangeBits == {t \in BitsOf(a) : StepEncoded(t) >= 1 /\ StepEncoded(t) <= n}
C14_OutOfRangeIgnored ==
    IndexBuilt =>
        /\ err = "Ok" =>
              \A s \in 1..n : \E t \in InRangeBits :
                  StepEncoded(t) = s /\ step_to_pidx[s] = t[1]
        /\ err = "step collision in A" =>
              \E t1, t2 \in InRangeBits : t1 # t2 /\ StepEncoded(t1) = StepEncoded(t2)

\* C15: every strict prefix of a container produced by raw_pack is rejected
\* by raw_unpack with a format error; no truncated container is accepted.
FormatErrors ==
    {"raw too small", "bad magic", "unexpected eof", "bad dims", "RG_LIMIT mismatch"}
C15_PrefixRejected ==
    (pc \in DecStates /\ tamper.kind = "truncate")
        => (pc = "dec_fail" /\ err \in FormatErrors /\ raw_unpack(raw).err # "Ok")

\* C16: in an encode pass and in a decode pass (steps N down to 1, for every
\* N up to u32::MAX) an odd step s changes only lane R, by the weight
\* (s+1)/2, and an even step only lane G, by the weight s/2, at the step's
\* cell; the steps descending, the weights applied to a lane are strictly
\* decreasing.
LaneStep(before, after, cell, s, sign) ==
    IF s % 2 = 1
    THEN /\ after.g = before.g
         /\ after.r = [before.r EXCEPT ![cell] = (@ + (sign * Weight(s))) % U64Mod]
    ELSE /\ after.r = before.r
         /\ after.g = [before.g EXCEPT ![cell] = (@ + (sign * Weight(s))) % U64Mod]
C16_LaneWeights ==
    /\ [][(pc = "enc_loop" /\ step >= 1)
           => /\ pc' = "enc_loop"
              /\ step' = step - 1
              /\ LaneStep(rg, rg', pidx_of(payload[step], step % H), step, -1)]_vars
    /\ [][(pc = "dec_loop" /\ step >= 1 /\ pc' = "dec_loop")
           => /\ step' = step - 1
              /\ LaneStep(rg, rg', step_to_pidx[step], step, 1)]_vars

\* C17: for any input buffer decode_fill ends by returning a payload or an
\* error: every cell index it is about to use on a plane, those taken from
\* the container's marker entries included, is below P, and it never aborts.
C17_CellInRange ==
    /\ pc = "dec_loop" => \A s \in 1..step : step_to_pidx[s] < PIXELS
    /\ pc # "dec_panic"

\* C18: decode_fill accepts only containers an encoder produces: when it
\* returns a payload Q for a container C, N of C is the length of Q, the
\* marker set of C holds for every step s in [1, N] the bit of s at the cell
\* pidx_of(Q[s-1], s mod 512) and no other bit, and the canvas of C holds
\* LIMIT minus the weights of the steps marked at each cell: the state that
\* encode_erase(Q) builds.
StepBitsOf(q) ==
    {<<pidx_of(q[s], s % H), s \div PageSize, s % PageSize>> : s \in 1..Len(q)}
C18_EncoderProducible ==
    pc = "dec_done" =>
        LET u == raw_unpack(raw)
        IN  /\ u.n = Len(out)
            /\ \A s \in 1..Len(out) : out[s] \in Byte
            /\ BitsOf(u.a) = StepBitsOf(out)
            /\ \A cell \in 0..(PIXELS - 1), lane \in 0..1 :
                  Lane(u.rg, lane)[cell]
                      = RG_LIMIT_EXACT - SumWeights(MarkedSteps(u.a, cell, lane))

\* C19: container codec round trip.  raw_unpack of the container raw_pack
\* wrote for the encoder's canvas, marker set (of any number of cells and of
\* pages per cell) and step count succeeds and returns the same canvas, the
\* same marker set and the same step count.
C19_CodecRoundTrip ==
    [][(pc = "packed" /\ Untampered /\ pc' # "packed")
       => /\ raw_unpack(raw).err = "Ok"
          /\ err' \notin FormatErrors
          /\ rg' = rg
          /\ a' = a
          /\ n' = n]_vars

=============================================================================
